---- MODULE Spec2Model ----
(***************************************************************************)
(* Model of the MPC controller node (ros/src/mpc/src/mpc_node.cpp).        *)
(*                                                                         *)
(* The node is one thread: loop() runs a tick (lines 201-380) and then     *)
(* calls ros::spinOnce() (line 383), which runs the callbacks of the       *)
(* messages that were queued by the transport while the tick was running.  *)
(*                                                                         *)
(* Units.  Doubles are modelled by scaled integers:                        *)
(*   steering angles and servo positions in hundredths (0.5 -> 50),        *)
(*   speeds in cm/s, motor speed in whole RPM.                             *)
(***************************************************************************)
EXTENDS Integers, Sequences, FiniteSets, TLC

VARIABLES
    pc,             \* position of loop(): "check", "tick", "spin", "done", "crashed"
    node_ok,        \* m_nodehandle.ok()
    m_pts_OK, m_pos_OK, m_speed_OK, m_psi_OK,
    m_go_flag,
    m_steer, m_rpm,
    m_pts,          \* m_pts_x / m_pts_y, as one sequence of points
    m_speed,
    m_pose,         \* m_pos_x, m_pos_y, m_psi
    q_centerline,   \* subscriber queues (messages not yet handled)
    q_odom,
    q_pose,
    q_go,
    pub_servo,      \* messages published on /commands/servo/position by the latest tick
    pub_motor,      \* messages published on /commands/motor/speed by the latest tick
    latched_servo,  \* the message the latched publisher holds: << >> before the first, then << last >>
    latched_motor,
    vars_out,       \* vars[0], vars[1] of the latest Solve
    tick_status,    \* outcome of the latest tick
    tick_go_flag,   \* m_go_flag as the latest tick read it
    stop_seen,      \* history: signal_go_cb ran for a 0 (all inputs ready) and nothing was published since
    stop_handled,   \* history: signal_go_cb ran for a 0 and not for a 2309 since
    argv,           \* main(): argc and the command-line values
    exit_code,      \* main(): << >> while it runs, then << its return value >>
    params,         \* the Params main() hands to the constructor
    m_latency,
    psi_lat,        \* locals of a tick of loop()
    pos_lat,        \* pos_x_lat, pos_y_lat
    closest_idx,
    closest_pts,    \* closest_pts_x / closest_pts_y
    xvals_vec,
    yvals_vec,
    fraction_steps_OK,  \* << numerator, denominator >>
    new_ref_v,          \* << numerator, denominator >>
    break_i             \* << i >> when the stabilizer loop left through its break

tick_locals == << psi_lat, pos_lat, closest_idx, closest_pts, xvals_vec, yvals_vec,
                  fraction_steps_OK, new_ref_v, break_i >>
config == << argv, exit_code, params, m_latency >>
\* what the specification of the message loop does not look at
detail == << config, tick_locals >>

vars == << pc, node_ok, m_pts_OK, m_pos_OK, m_speed_OK, m_psi_OK, m_go_flag,
           m_steer, m_rpm, m_pts, m_speed, m_pose,
           q_centerline, q_odom, q_pose, q_go,
           pub_servo, pub_motor, latched_servo, latched_motor,
           vars_out, tick_status, tick_go_flag, stop_seen, stop_handled,
           argv, exit_code, params, m_latency,
           psi_lat, pos_lat, closest_idx, closest_pts, xvals_vec, yvals_vec,
           fraction_steps_OK, new_ref_v, break_i >>

(***************************************************************************)
(* Program constants.                                                      *)
(***************************************************************************)
\* MPC.h: neutral servo position (0.5), in hundredths
CENTER_IN_DZIK == 50
\* MPC.h: wheel radius, in millimetres
WHEEL_RADIUS_IN_DZIK == 50
\* MPC.h: the solver's box bound on the steering angle (0.436 rad), in hundredths
DELTA_MAX == 44
\* go_signal codes of signal_go_cb
STOP_CODE == 0
GO_CODE == 2309
\* queue sizes given to subscribe()
GO_QUEUE_SIZE == 10
INPUT_QUEUE_SIZE == 1

(***************************************************************************)
(* Bounds of the model.                                                    *)
(***************************************************************************)
\* go_signal messages that arrive between two calls of spinOnce
MaxPending == 2

\* go_signal payloads (UInt16): stop, go, and a code that is neither
GoCodes == {STOP_CODE, GO_CODE, 1}

\* centerline messages: an empty marker and a short closed track
Centerlines == { << >>,
                 << [x |-> 0, y |-> 0], [x |-> 1, y |-> 0], [x |-> 1, y |-> 1] >> }
\* odom messages: twist.linear.x
Speeds == {100}
\* pose messages: position and yaw
Poses == { [x |-> 0, y |-> 0, psi |-> 0] }

\* steering angles a Solve can hand back (hundredths of a radian)
DeltaVals == {-60, 20, 60}
\* speeds a Solve can hand back (cm/s)
SpeedVals == {-100, 100}

(***************************************************************************)
(* Pure parts of loop().                                                   *)
(***************************************************************************)
\* the gate without the speed flag
InputsReady_NoSpeed == m_pts_OK /\ m_pos_OK /\ m_psi_OK

\* line 203: the gate on the four readiness flags
InputsReady == m_pts_OK /\ m_speed_OK /\ m_pos_OK /\ m_psi_OK

\* line 307: m_steer = CENTER_IN_DZIK - steering_angle_in_radians
MapSteer(delta) == CENTER_IN_DZIK - delta

\* the clip without its upper branch
ClampSteer_NoUpper(s) == IF s < 0 THEN 0 ELSE s

\* lines 309-315: clip the servo position to [0.0, 1.0]
ClampSteer(s) == IF s < 0 THEN 0 ELSE IF s > 100 THEN 100 ELSE s

\* lines 318-320: speed / 2 / M_PI / WHEEL_RADIUS_IN_DZIK * 60 * 10
\* (cm/s -> mm/s is *10, the circumference in mm is 2 * 3.142 * radius)
MapSpeedToRpm(v) == (v * 10 * 60 * 10 * 1000) \div (2 * 3142 * WHEEL_RADIUS_IN_DZIK)

\* a go gate that stops the motor and leaves the servo where the solver put it
GoGate_KeepsSteer(go, steer, rpm) ==
    IF ~go THEN [steer |-> steer, rpm |-> 0]
           ELSE [steer |-> steer, rpm |-> rpm]

\* lines 323-328: without the go flag the command is (CENTER, 0)
GoGate(go, steer, rpm) ==
    IF ~go THEN [steer |-> CENTER_IN_DZIK, rpm |-> 0]
           ELSE [steer |-> steer, rpm |-> rpm]

\* lines 301-328: the command of a tick, from the values Solve handed back
Command(go, delta, speed) ==
    GoGate(go, ClampSteer(MapSteer(delta)), MapSpeedToRpm(speed))

\* MPC::Solve and polyfit (MPC.h / MPC.cpp): what a tick can get back.
\* A converged solve respects the box bound on delta; after a singular fit
\* ("NumericError") or a solve that did not converge ("SolveFailed") the
\* returned vector holds whatever the last iterate was.  The vector is all
\* that Solve returns: the status is not part of it.
SolveOutcomes ==
    { [status |-> "ok", delta |-> d, speed |-> s] :
        d \in {x \in DeltaVals : x >= -DELTA_MAX /\ x <= DELTA_MAX}, s \in SpeedVals }
    \cup
    { [status |-> st, delta |-> d, speed |-> s] :
        st \in {"NumericError", "SolveFailed"}, d \in DeltaVals, s \in SpeedVals }

\* The message loop is specified without the inside of a tick and without
\* main(): the variables of those parts keep a value that stands for "not
\* looked at" (SpecTick and SpecMain are the specifications that use them).
Unobserved ==
    /\ argv = << >> /\ exit_code = << >> /\ params = << >> /\ m_latency = << >>
    /\ psi_lat = << >> /\ pos_lat = << >> /\ closest_idx = << >> /\ closest_pts = << >>
    /\ xvals_vec = << >> /\ yvals_vec = << >>
    /\ fraction_steps_OK = << >> /\ new_ref_v = << >> /\ break_i = << >>

\* the locals of a tick before the tick has computed them
NoTickYet ==
    /\ psi_lat = << >> /\ pos_lat = << >> /\ closest_idx = << >> /\ closest_pts = << >>
    /\ xvals_vec = << >> /\ yvals_vec = << >>
    /\ fraction_steps_OK = << >> /\ new_ref_v = << >> /\ break_i = << >>

(***************************************************************************)
(* Init: the state the constructor leaves (lines 16-95), at the entry of   *)
(* loop().  m_speed, m_pos_x, m_pos_y, m_psi and the point vectors are not *)
(* read by loop() before their callback has run.                           *)
(***************************************************************************)
Constructed ==
    /\ node_ok = TRUE
    /\ m_pts_OK = FALSE
    /\ m_pos_OK = FALSE
    /\ m_speed_OK = FALSE
    /\ m_psi_OK = FALSE
    /\ m_go_flag = FALSE
    /\ m_steer = CENTER_IN_DZIK
    /\ m_rpm = 0
    /\ m_pts = << >>
    /\ m_speed = 0
    /\ m_pose = [x |-> 0, y |-> 0, psi |-> 0]
    /\ q_centerline = << >>
    /\ q_odom = << >>
    /\ q_pose = << >>
    /\ q_go = << >>
    /\ pub_servo = << >>
    /\ pub_motor = << >>
    /\ latched_servo = << >>
    /\ latched_motor = << >>
    /\ vars_out = [delta |-> 0, speed |-> 0]
    /\ tick_status = "none"
    /\ tick_go_flag = FALSE
    /\ stop_seen = FALSE
    /\ stop_handled = FALSE

Init ==
    /\ pc = "check"
    /\ Constructed
    /\ Unobserved

node_state == << m_pts_OK, m_pos_OK, m_speed_OK, m_psi_OK, m_go_flag, m_pts, m_speed, m_pose >>
actuators == << m_steer, m_rpm >>
queues == << q_centerline, q_odom, q_pose, q_go >>
outputs == << pub_servo, pub_motor, latched_servo, latched_motor >>
tick_obs == << vars_out, tick_status, tick_go_flag >>

(***************************************************************************)
(* The transport: a message arrives and waits in its subscriber's queue    *)
(* until spinOnce runs the callback.  A full queue drops its oldest        *)
(* message.  Messages arrive while loop() is inside a tick.                *)
(***************************************************************************)
\* a queue of the given size after one more message
Enqueue(q, size, msg) ==
    IF Len(q) < size THEN Append(q, msg) ELSE Append(Tail(q), msg)

\* lines 71-76: subscribe("/centerline", 1, ...)
Arrive_centerline ==
    /\ pc = "tick"
    /\ \E data \in Centerlines : q_centerline' = Enqueue(q_centerline, INPUT_QUEUE_SIZE, data)
    /\ UNCHANGED << pc, node_ok, node_state, actuators, q_odom, q_pose, q_go,
                    outputs, tick_obs, stop_seen, stop_handled >>
    /\ UNCHANGED detail

\* lines 77-82: subscribe("/odom", 1, ...)
Arrive_odom ==
    /\ pc = "tick"
    /\ \E data \in Speeds : q_odom' = Enqueue(q_odom, INPUT_QUEUE_SIZE, data)
    /\ UNCHANGED << pc, node_ok, node_state, actuators, q_centerline, q_pose, q_go,
                    outputs, tick_obs, stop_seen, stop_handled >>
    /\ UNCHANGED detail

\* lines 83-88: subscribe("/pf/pose/odom", 1, ...)
Arrive_pose ==
    /\ pc = "tick"
    /\ \E data \in Poses : q_pose' = Enqueue(q_pose, INPUT_QUEUE_SIZE, data)
    /\ UNCHANGED << pc, node_ok, node_state, actuators, q_centerline, q_odom, q_go,
                    outputs, tick_obs, stop_seen, stop_handled >>
    /\ UNCHANGED detail

\* lines 89-94: subscribe("/signal/go", 10, ...)
Arrive_go ==
    /\ pc = "tick"
    /\ Len(q_go) < MaxPending
    /\ \E data \in GoCodes :
        q_go' = Enqueue(q_go, GO_QUEUE_SIZE, data)
    /\ UNCHANGED << pc, node_ok, node_state, actuators, q_centerline, q_odom, q_pose,
                    outputs, tick_obs, stop_seen, stop_handled >>
    /\ UNCHANGED detail

\* a shutdown signal: m_nodehandle.ok() is false from now on
Shutdown ==
    /\ pc \in {"check", "tick", "spin"}
    /\ node_ok
    /\ node_ok' = FALSE
    /\ UNCHANGED << pc, node_state, actuators, queues, outputs, tick_obs,
                    stop_seen, stop_handled >>
    /\ UNCHANGED detail

(***************************************************************************)
(* The callbacks (run by spinOnce, one message each).                      *)
(***************************************************************************)
\* lines 98-112
centerline_cb(data) ==
    /\ m_pts' = data
    /\ m_pts_OK' = TRUE
    /\ UNCHANGED << m_pos_OK, m_speed_OK, m_psi_OK, m_go_flag, m_speed, m_pose >>

\* a callback without the emergency-stop branch
signal_go_cb_NoStop(data) ==
    /\ m_go_flag' = IF data = GO_CODE THEN TRUE ELSE m_go_flag
    /\ UNCHANGED << m_pts_OK, m_pos_OK, m_speed_OK, m_psi_OK, m_pts, m_speed, m_pose >>

\* a callback that takes every code but 0 for "go"
signal_go_cb_AnyCodeGoes(data) ==
    /\ m_go_flag' = (data # STOP_CODE)
    /\ UNCHANGED << m_pts_OK, m_pos_OK, m_speed_OK, m_psi_OK, m_pts, m_speed, m_pose >>

\* lines 115-123
signal_go_cb(data) ==
    /\ m_go_flag' = IF data = STOP_CODE THEN FALSE
                    ELSE IF data = GO_CODE THEN TRUE
                    ELSE m_go_flag
    /\ UNCHANGED << m_pts_OK, m_pos_OK, m_speed_OK, m_psi_OK, m_pts, m_speed, m_pose >>

\* lines 178-181
odom_cb(data) ==
    /\ m_speed' = data
    /\ m_speed_OK' = TRUE
    /\ UNCHANGED << m_pts_OK, m_pos_OK, m_psi_OK, m_go_flag, m_pts, m_pose >>

\* a pose callback that forgets the heading flag
pf_pose_odom_cb_NoPsiFlag(data) ==
    /\ m_pose' = data
    /\ m_pos_OK' = TRUE
    /\ UNCHANGED << m_pts_OK, m_speed_OK, m_psi_OK, m_go_flag, m_pts, m_speed >>

\* lines 184-196 (the message carries the yaw that atan2 extracts from the quaternion)
pf_pose_odom_cb(data) ==
    /\ m_pose' = data
    /\ m_pos_OK' = TRUE
    /\ m_psi_OK' = TRUE
    /\ UNCHANGED << m_pts_OK, m_speed_OK, m_go_flag, m_pts, m_speed >>

(***************************************************************************)
(* loop(), lines 199-385.                                                  *)
(***************************************************************************)
\* line 200: while (m_nodehandle.ok())
LoopCheck ==
    /\ pc = "check"
    /\ pc' = IF node_ok THEN "tick" ELSE "done"
    /\ UNCHANGED << node_ok, node_state, actuators, queues, outputs, tick_obs,
                    stop_seen, stop_handled >>
    /\ UNCHANGED detail

\* lines 203-373: the branch of a tick that has all four inputs
TickRun ==
    /\ pc = "tick"
    /\ InputsReady
    /\ \E r \in SolveOutcomes :
        LET cmd == Command(m_go_flag, r.delta, r.speed) IN
        /\ vars_out' = [delta |-> r.delta, speed |-> r.speed]
        /\ tick_status' = r.status
        /\ m_steer' = cmd.steer
        /\ m_rpm' = cmd.rpm
        /\ pub_servo' = << cmd.steer >>
        /\ pub_motor' = << cmd.rpm >>
        /\ latched_servo' = << cmd.steer >>
        /\ latched_motor' = << cmd.rpm >>
    /\ tick_go_flag' = m_go_flag
    /\ stop_seen' = FALSE
    /\ pc' = "spin"
    /\ UNCHANGED << node_ok, node_state, queues, stop_handled >>
    /\ UNCHANGED detail

\* line 220 with an empty centerline: find_closest returned -1 and the index
\* is reduced modulo m_pts_x.size() = 0.  The division by zero ends the
\* process before anything is published (the other outcome, a tick that
\* goes on with garbage window points, is TickRun).
TickCrash ==
    /\ pc = "tick"
    /\ InputsReady
    /\ Len(m_pts) = 0
    /\ tick_status' = "crashed"
    /\ tick_go_flag' = m_go_flag
    /\ pub_servo' = << >>
    /\ pub_motor' = << >>
    /\ pc' = "crashed"
    /\ UNCHANGED << node_ok, node_state, actuators, queues, latched_servo, latched_motor,
                    vars_out, stop_seen, stop_handled >>
    /\ UNCHANGED detail

\* a skipped tick that publishes the safe-stop pair
TickSkip_PublishesSafeStop ==
    /\ pc = "tick"
    /\ ~InputsReady
    /\ tick_status' = "skipped"
    /\ tick_go_flag' = m_go_flag
    /\ m_steer' = CENTER_IN_DZIK
    /\ m_rpm' = 0
    /\ pub_servo' = << CENTER_IN_DZIK >>
    /\ pub_motor' = << 0 >>
    /\ latched_servo' = << CENTER_IN_DZIK >>
    /\ latched_motor' = << 0 >>
    /\ pc' = "spin"
    /\ UNCHANGED << node_ok, node_state, queues, vars_out, stop_seen, stop_handled >>
    /\ UNCHANGED detail

\* lines 375-380: the branch of a tick that misses an input
TickSkip ==
    /\ pc = "tick"
    /\ ~InputsReady
    /\ tick_status' = "skipped"
    /\ tick_go_flag' = m_go_flag
    /\ pub_servo' = << >>
    /\ pub_motor' = << >>
    /\ pc' = "spin"
    /\ UNCHANGED << node_ok, node_state, actuators, queues, latched_servo, latched_motor,
                    vars_out, stop_seen, stop_handled >>
    /\ UNCHANGED detail

\* line 383: ros::spinOnce() runs the callback of every queued message
Spin_centerline ==
    /\ pc = "spin"
    /\ q_centerline # << >>
    /\ centerline_cb(Head(q_centerline))
    /\ q_centerline' = Tail(q_centerline)
    /\ UNCHANGED << pc, node_ok, actuators, q_odom, q_pose, q_go, outputs, tick_obs,
                    stop_seen, stop_handled >>
    /\ UNCHANGED detail

Spin_odom ==
    /\ pc = "spin"
    /\ q_odom # << >>
    /\ odom_cb(Head(q_odom))
    /\ q_odom' = Tail(q_odom)
    /\ UNCHANGED << pc, node_ok, actuators, q_centerline, q_pose, q_go, outputs, tick_obs,
                    stop_seen, stop_handled >>
    /\ UNCHANGED detail

\* a pose callback run from another thread (an AsyncSpinner), also while a tick runs
Spin_pose_Async ==
    /\ pc \in {"tick", "spin"}
    /\ q_pose # << >>
    /\ pf_pose_odom_cb(Head(q_pose))
    /\ q_pose' = Tail(q_pose)
    /\ UNCHANGED << pc, node_ok, actuators, q_centerline, q_odom, q_go, outputs, tick_obs,
                    stop_seen, stop_handled >>
    /\ UNCHANGED detail

Spin_pose ==
    /\ pc = "spin"
    /\ q_pose # << >>
    /\ pf_pose_odom_cb(Head(q_pose))
    /\ q_pose' = Tail(q_pose)
    /\ UNCHANGED << pc, node_ok, actuators, q_centerline, q_odom, q_go, outputs, tick_obs,
                    stop_seen, stop_handled >>
    /\ UNCHANGED detail

Spin_go ==
    /\ pc = "spin"
    /\ q_go # << >>
    /\ signal_go_cb(Head(q_go))
    /\ q_go' = Tail(q_go)
    /\ stop_handled' = IF Head(q_go) = 0 THEN TRUE
                       ELSE IF Head(q_go) = 2309 THEN FALSE
                       ELSE stop_handled
    /\ stop_seen' = IF Head(q_go) = 0 /\ m_pts_OK /\ m_speed_OK /\ m_pos_OK /\ m_psi_OK
                    THEN TRUE ELSE stop_seen
    /\ UNCHANGED << pc, node_ok, actuators, q_centerline, q_odom, q_pose, outputs, tick_obs >>
    /\ UNCHANGED detail

\* lines 383-384: spinOnce returns once the queues are empty; back to the loop test
SpinDone ==
    /\ pc = "spin"
    /\ q_centerline = << >> /\ q_odom = << >> /\ q_pose = << >> /\ q_go = << >>
    /\ pc' = "check"
    /\ UNCHANGED << node_ok, node_state, actuators, queues, outputs, tick_obs,
                    stop_seen, stop_handled >>
    /\ UNCHANGED detail

Next ==
    \/ Arrive_centerline \/ Arrive_odom \/ Arrive_pose \/ Arrive_go
    \/ Shutdown
    \/ LoopCheck
    \/ TickRun \/ TickCrash \/ TickSkip
    \/ Spin_centerline \/ Spin_odom \/ Spin_pose \/ Spin_go
    \/ SpinDone

Spec == Init /\ [][Next]_vars

(***************************************************************************)
(* main(), lines 405-492.                                                  *)
(*                                                                         *)
(* argv holds the values atoi/atof read from argv[1..13] (ref_v_alpha in   *)
(* hundredths, latency in ms, ref_v in cm/s) and the text of argv[14].     *)
(* Of the six cost coefficients, the first (cte_coeff) and the last        *)
(* (consec_speed_coeff) vary; main() treats all six alike.                 *)
(***************************************************************************)
\* MPC.h: samples taken behind the nearest centerline point
NUM_STEPS_BACK == 2
\* MPC.h: stride into the centerline between two window samples
STEP_POLY == 2

\* line 411
num_expected_args == 15

\* (poly_degree, num_steps_poly) pairs given on the command line
PolyArgs == { << 1, 3 >>, << 1, 4 >>, << 2, 4 >>, << 0, 3 >>, << 3, 3 >> }

\* what m_latency can hold: the constructor never assigns it
LatencyGarbage == {0, 100}

ArgvSet ==
    [ argc : {14, 15, 16},
      steps_ahead : {1, 10},
      dt : {0, 10},
      ref_v : {0, 200},
      ref_v_alpha : {-1, 0, 50, 101},
      latency : {-100, 100},
      cte_coeff : {-1, 1},
      consec_speed_coeff : {-1, 1},
      poly : PolyArgs,
      debug : {"true", "false", "yes"} ]

InitMain ==
    /\ pc = "main"
    /\ Constructed
    /\ argv \in ArgvSet
    /\ exit_code = << >>
    /\ params = << >>
    /\ m_latency \in LatencyGarbage
    /\ NoTickYet

\* lines 413-460: the checks main() makes while it parses
ArgsAccepted(a) ==
    /\ a.argc = num_expected_args
    /\ ~(a.ref_v_alpha > 100 \/ a.ref_v_alpha < 0)
    /\ a.debug \in {"true", "false"}

\* lines 414-445: the Params main() fills in
ParseArgs(a) ==
    [ steps_ahead |-> a.steps_ahead, dt |-> a.dt, ref_v |-> a.ref_v,
      ref_v_alpha |-> a.ref_v_alpha, latency |-> a.latency,
      cte_coeff |-> a.cte_coeff, consec_speed_coeff |-> a.consec_speed_coeff,
      poly_degree |-> a.poly[1], num_steps_poly |-> a.poly[2],
      debug |-> (a.debug = "true") ]

\* lines 405-460, a command line main() turns down: return 1
MainReject ==
    /\ pc = "main"
    /\ ~ArgsAccepted(argv)
    /\ exit_code' = << 1 >>
    /\ pc' = "exited"
    /\ UNCHANGED << node_ok, node_state, actuators, queues, outputs, tick_obs,
                    stop_seen, stop_handled, argv, params, m_latency, tick_locals >>

\* lines 405-485, a command line main() takes: the node is constructed
MainConstruct ==
    /\ pc = "main"
    /\ ArgsAccepted(argv)
    /\ params' = ParseArgs(argv)
    /\ pc' = "constructed"
    /\ UNCHANGED << node_ok, node_state, actuators, queues, outputs, tick_obs,
                    stop_seen, stop_handled, argv, exit_code, m_latency, tick_locals >>

\* lines 487-489: mpc_node.loop() is entered
MainLoop ==
    /\ pc = "constructed"
    /\ pc' = "loop"
    /\ UNCHANGED << node_ok, node_state, actuators, queues, outputs, tick_obs,
                    stop_seen, stop_handled, config, tick_locals >>

NextMain == MainReject \/ MainConstruct \/ MainLoop

SpecMain == InitMain /\ [][NextMain]_vars

(***************************************************************************)
(* The inside of a tick, lines 203-335.                                    *)
(*                                                                         *)
(* Lengths are in cm, speeds in cm/s, m_latency in ms, m_steer in          *)
(* hundredths, angles in milliradians.  Doubles are modelled by integers   *)
(* and by fractions << numerator, denominator >>; rounding is not.         *)
(***************************************************************************)
\* MPC.h, Lf(): distance from the centre of mass to the front axle (cm)
Lf == 32
\* MPC.h: the smallest car-frame x step the stabilizer takes
X_DELTA_MIN_VALUE == 1

\* cos and sin of an angle, taken at the nearest quarter turn
Quarter(psi) == ((psi + 785) \div 1571) % 4
cos(psi) == << 1, 0, -1, 0 >>[Quarter(psi) + 1]
sin(psi) == << 0, 1, 0, -1 >>[Quarter(psi) + 1]

\* line 205: m_psi - m_latency * (v_lat * m_steer / Lf())
PsiLat(psi, latency, v_lat, steer) == psi - (latency * v_lat * steer) \div (Lf * 100)

\* lines 206-207
PosLat(pose, latency, v_lat, psi_l) ==
    [ x |-> pose.x + (latency * v_lat * cos(psi_l)) \div 1000,
      y |-> pose.y + (latency * v_lat * sin(psi_l)) \div 1000 ]

\* line 390: double closest_dist = 1.0e19, a squared distance in m^2, in the
\* square of the unit the points are given in.  With points in Gm (10^9 m) it
\* is 10.  With points in cm it is 1.0e23, beyond the integers of the model
\* checker; the largest of them takes its place, every squared distance that
\* can be computed in cm being below both.
closest_dist_init(unit) == IF unit = "Gm" THEN 10 ELSE 2147483647

\* lines 391-400: the scan, from index i on
RECURSIVE find_closest_from(_, _, _, _, _, _)
find_closest_from(pts, pos_x, pos_y, i, c_idx, c_dist) ==
    IF i >= Len(pts) THEN c_idx
    ELSE LET diff_x == pts[i + 1].x - pos_x
             diff_y == pts[i + 1].y - pos_y
             dist == diff_x * diff_x + diff_y * diff_y
         IN  IF dist < c_dist
             THEN find_closest_from(pts, pos_x, pos_y, i + 1, i, dist)
             ELSE find_closest_from(pts, pos_x, pos_y, i + 1, c_idx, c_dist)

\* lines 388-401, for points and a position in the given unit
find_closest(pts, pos_x, pos_y, unit) ==
    find_closest_from(pts, pos_x, pos_y, 0, -1, closest_dist_init(unit))

\* 2^64 reduced modulo n, by six squarings of 2
Pow2_64_Mod(n) ==
    LET sq(a) == (a * a) % n
    IN  sq(sq(sq(sq(sq(sq(2 % n))))))

\* line 220: (closest_idx + i*STEP_POLY) % m_pts_x.size().  i is a size_t, so
\* the int closest_idx is converted to size_t and the sum is taken modulo 2^64
\* before it is reduced modulo the size.
WindowIndex(c_idx, i, n) ==
    LET val == c_idx + i * STEP_POLY
    IN  IF val >= 0 THEN val % n
        ELSE (Pow2_64_Mod(n) + (val % n)) % n

\* lines 215-223
Window(pts, c_idx, num) ==
    [ i \in 1..num |-> pts[WindowIndex(c_idx, i - 1, Len(pts)) + 1] ]

\* lines 237-242: a window point in the car's frame
Rotate(p, pos, psi_l) ==
    LET dx == p.x - pos.x
        dy == p.y - pos.y
    IN  [ x |-> dx * cos(psi_l) + dy * sin(psi_l),
          y |-> (0 - dx) * sin(psi_l) + dy * cos(psi_l) ]

\* std::vector::operator[] at index k (from 0): an index outside the vector
\* is undefined behaviour and reads whatever is there
At(v, k, garbage) == IF k >= 0 /\ k < Len(v) THEN v[k + 1] ELSE garbage

\* a fraction that counts one step too many
FractionStepsOK_OneMore(i, num) == << i + 2, num >>

\* line 248: 1.0 * (i+1) / m_num_steps_poly
FractionStepsOK(i, num) == << i + 1, num >>

\* lines 236-268: the loop from index i on, xs and ys being xvals_vec and
\* yvals_vec so far; g is what a read outside the vectors returns
RECURSIVE Stabilize(_, _, _, _, _, _, _, _)
Stabilize(cpts, pos, psi_l, degree, i, xs, ys, g) ==
    LET num == Len(cpts) IN
    IF i >= num
    THEN [ x |-> xs, y |-> ys, fraction |-> << 1, 1 >>, break_i |-> << >> ]
    ELSE LET rot == Rotate(cpts[i + 1], pos, psi_l) IN
         IF i > degree /\ rot.x - At(xs, i - 1, g.x) < X_DELTA_MIN_VALUE
         THEN LET num_steps_remaining == num - i + 1
                  delta_x == (At(xs, i - 1, g.x) - At(xs, i - 2, g.x)) \div num_steps_remaining
                  delta_y == (At(ys, i - 1, g.y) - At(ys, i - 2, g.y)) \div num_steps_remaining
              IN  [ x |-> xs \o [ sub_i \in 1..(num_steps_remaining - 1) |->
                                    At(xs, i - 1, g.x) + sub_i * delta_x ],
                    y |-> ys \o [ sub_i \in 1..(num_steps_remaining - 1) |->
                                    At(ys, i - 1, g.y) + sub_i * delta_y ],
                    fraction |-> FractionStepsOK(i, num),
                    break_i |-> << i >> ]
         ELSE Stabilize(cpts, pos, psi_l, degree, i + 1,
                        Append(xs, rot.x), Append(ys, rot.y), g)

\* line 270: m_ref_v_alpha * m_ref_v + (1 - m_ref_v_alpha) * (fraction_steps_OK * m_ref_v),
\* alpha in hundredths
NewRefV(alpha, ref_v, fraction) ==
    << ref_v * (alpha * fraction[2] + (100 - alpha) * fraction[1]), 100 * fraction[2] >>

\* the centerlines of a tick: a straight run of 7 points and a ring of 4
TickCenterlines ==
    { [ k \in 1..7 |-> [x |-> 60 * (k - 1), y |-> 0] ],
      << [x |-> 0, y |-> 0], [x |-> 60, y |-> 0], [x |-> 60, y |-> 60], [x |-> 0, y |-> 60] >> }
\* the poses of a tick: two places, heading along x and against it
TickPoses == { [x |-> 0, y |-> 0, psi |-> 0], [x |-> 240, y |-> 0, psi |-> 0],
               [x |-> 240, y |-> 0, psi |-> 3142] }
\* the command lines of a running node
TickArgv ==
    { a \in ArgvSet :
        /\ ArgsAccepted(a)
        /\ a.steps_ahead = 10 /\ a.dt = 10 /\ a.ref_v = 200 /\ a.latency = 100
        /\ a.cte_coeff = 1 /\ a.consec_speed_coeff = 1 /\ a.debug = "false"
        /\ a.poly[1] < a.poly[2] }
\* what a read outside xvals_vec / yvals_vec can return
GarbageReads == [ x : {0, 120}, y : {0} ]

\* the node at its first tick with all four inputs in: constructed from an
\* accepted command line, the centerline, speed and first pose received
InitTick ==
    /\ pc = "tick"
    /\ node_ok = TRUE
    /\ m_pts_OK = TRUE /\ m_pos_OK = TRUE /\ m_speed_OK = TRUE /\ m_psi_OK = TRUE
    /\ m_go_flag = FALSE
    /\ m_steer = CENTER_IN_DZIK
    /\ m_rpm = 0
    /\ m_pts \in TickCenterlines
    /\ m_speed \in Speeds
    /\ m_pose \in TickPoses
    /\ q_centerline = << >> /\ q_odom = << >> /\ q_pose = << >> /\ q_go = << >>
    /\ pub_servo = << >> /\ pub_motor = << >>
    /\ latched_servo = << >> /\ latched_motor = << >>
    /\ vars_out = [delta |-> 0, speed |-> 0]
    /\ tick_status = "none"
    /\ tick_go_flag = FALSE
    /\ stop_seen = FALSE
    /\ stop_handled = FALSE
    /\ argv \in TickArgv
    /\ params = ParseArgs(argv)
    /\ exit_code = << >>
    /\ m_latency \in LatencyGarbage
    /\ NoTickYet

\* lines 204-270: the locals of a tick, from the members it reads; g is what
\* a read outside xvals_vec / yvals_vec returns.  The constructor copies
\* params.poly_degree, num_steps_poly, ref_v and ref_v_alpha into the members
\* the tick reads (lines 29-32).
TickLocals(g) ==
    LET psi_l == PsiLat(m_pose.psi, m_latency, m_speed, m_steer)
        pos_l == PosLat(m_pose, m_latency, m_speed, psi_l)
        c_idx == find_closest(m_pts, pos_l.x, pos_l.y, "cm") - NUM_STEPS_BACK
        cpts == Window(m_pts, c_idx, params.num_steps_poly)
        st == Stabilize(cpts, pos_l, psi_l, params.poly_degree, 0, << >>, << >>, g)
    IN  [ psi_lat |-> psi_l, pos_lat |-> pos_l, closest_idx |-> c_idx, closest_pts |-> cpts,
          xvals_vec |-> st.x, yvals_vec |-> st.y,
          fraction_steps_OK |-> st.fraction, break_i |-> st.break_i,
          new_ref_v |-> NewRefV(params.ref_v_alpha, params.ref_v, st.fraction) ]

\* lines 203-335: the branch of a tick that has all four inputs, with its locals
TickCompute ==
    /\ pc = "tick"
    /\ InputsReady
    /\ Len(m_pts) > 0
    /\ \E loc \in { TickLocals(g) : g \in GarbageReads } :
        /\ psi_lat' = loc.psi_lat
        /\ pos_lat' = loc.pos_lat
        /\ closest_idx' = loc.closest_idx
        /\ closest_pts' = loc.closest_pts
        /\ xvals_vec' = loc.xvals_vec
        /\ yvals_vec' = loc.yvals_vec
        /\ fraction_steps_OK' = loc.fraction_steps_OK
        /\ break_i' = loc.break_i
        /\ new_ref_v' = loc.new_ref_v
    /\ \E r \in SolveOutcomes :
        LET cmd == Command(m_go_flag, r.delta, r.speed) IN
        /\ vars_out' = [delta |-> r.delta, speed |-> r.speed]
        /\ tick_status' = r.status
        /\ m_steer' = cmd.steer
        /\ m_rpm' = cmd.rpm
        /\ pub_servo' = << cmd.steer >>
        /\ pub_motor' = << cmd.rpm >>
        /\ latched_servo' = << cmd.steer >>
        /\ latched_motor' = << cmd.rpm >>
    /\ tick_go_flag' = m_go_flag
    /\ stop_seen' = FALSE
    /\ pc' = "spin"
    /\ UNCHANGED << node_ok, node_state, queues, stop_handled, config >>

\* line 383: spinOnce hands a pose message to its callback
TickSpin_pose ==
    /\ pc = "spin"
    /\ \E data \in TickPoses : pf_pose_odom_cb(data)
    /\ UNCHANGED << pc, node_ok, actuators, queues, outputs, tick_obs,
                    stop_seen, stop_handled, detail >>

\* line 383: spinOnce hands a go_signal message to its callback
TickSpin_go ==
    /\ pc = "spin"
    /\ \E data \in {STOP_CODE, GO_CODE} :
        /\ signal_go_cb(data)
        /\ stop_handled' = (data = STOP_CODE)
        /\ stop_seen' = IF data = STOP_CODE THEN TRUE ELSE stop_seen
    /\ UNCHANGED << pc, node_ok, actuators, queues, outputs, tick_obs, detail >>

\* lines 383-384 and 200: spinOnce returns and the node is still ok; the
\* locals of the tick are gone
TickSpinDone ==
    /\ pc = "spin"
    /\ pc' = "tick"
    /\ psi_lat' = << >> /\ pos_lat' = << >> /\ closest_idx' = << >> /\ closest_pts' = << >>
    /\ xvals_vec' = << >> /\ yvals_vec' = << >>
    /\ fraction_steps_OK' = << >> /\ new_ref_v' = << >> /\ break_i' = << >>
    /\ UNCHANGED << node_ok, node_state, actuators, queues, outputs, tick_obs,
                    stop_seen, stop_handled, config >>

NextTick == TickCompute \/ TickSpin_pose \/ TickSpin_go \/ TickSpinDone

SpecTick == InitTick /\ [][NextTick]_vars

(***************************************************************************)
(* find_closest (lines 388-401) on its own, called with any point list and *)
(* any position.  Its arguments are doubles, so the lengths here are in Gm *)
(* (10^9 m), the scale at which the initial closest_dist is met.  m_pts    *)
(* holds the list, pos_lat the position, closest_idx the value returned.   *)
(***************************************************************************)
\* bound: the longest point list
MaxPts == 3

\* coordinates of the points and of the position (Gm)
ClosestPoints == [ x : {0, 1, 4}, y : {0, 1} ]
ClosestLists == UNION { [ 1..n -> ClosestPoints ] : n \in 0..MaxPts }

InitClosest ==
    /\ pc = "call"
    /\ node_ok = TRUE
    /\ m_pts_OK = TRUE /\ m_pos_OK = TRUE /\ m_speed_OK = TRUE /\ m_psi_OK = TRUE
    /\ m_go_flag = FALSE
    /\ m_steer = CENTER_IN_DZIK
    /\ m_rpm = 0
    /\ m_pts \in ClosestLists
    /\ m_speed = 0
    /\ m_pose = [x |-> 0, y |-> 0, psi |-> 0]
    /\ q_centerline = << >> /\ q_odom = << >> /\ q_pose = << >> /\ q_go = << >>
    /\ pub_servo = << >> /\ pub_motor = << >>
    /\ latched_servo = << >> /\ latched_motor = << >>
    /\ vars_out = [delta |-> 0, speed |-> 0]
    /\ tick_status = "none"
    /\ tick_go_flag = FALSE
    /\ stop_seen = FALSE
    /\ stop_handled = FALSE
    /\ argv = << >> /\ exit_code = << >> /\ params = << >> /\ m_latency = << >>
    /\ psi_lat = << >>
    /\ pos_lat \in ClosestPoints
    /\ closest_idx = << >>
    /\ closest_pts = << >>
    /\ xvals_vec = << >> /\ yvals_vec = << >>
    /\ fraction_steps_OK = << >> /\ new_ref_v = << >> /\ break_i = << >>

\* line 209: int closest_idx = find_closest(m_pts_x, m_pts_y, pos_x_lat, pos_y_lat)
CallFindClosest ==
    /\ pc = "call"
    /\ closest_idx' = << find_closest(m_pts, pos_lat.x, pos_lat.y, "Gm") >>
    /\ pc' = "returned"
    /\ UNCHANGED << node_ok, node_state, actuators, queues, outputs, tick_obs,
                    stop_seen, stop_handled, config,
                    psi_lat, pos_lat, closest_pts, xvals_vec, yvals_vec,
                    fraction_steps_OK, new_ref_v, break_i >>

NextClosest == CallFindClosest

SpecClosest == InitClosest /\ [][NextClosest]_vars

(***************************************************************************)
(* Properties.                                                             *)
(***************************************************************************)
AllFourReady == m_pts_OK /\ m_speed_OK /\ m_pos_OK /\ m_psi_OK
PublishedSafeStop == pub_servo = << 50 >> /\ pub_motor = << 0 >>
\* this step is the tick of loop() that ran the optimisation and published
PublishingTick == pc = "tick" /\ pc' = "spin" /\ pub_servo' # << >>

\* C1: a tick that publishes and that read go_flag = false publishes exactly
\* (CENTER, 0), whatever Solve returned.
C1_NoGoPublishesSafeStop ==
    (pub_servo # << >> /\ ~tick_go_flag) => PublishedSafeStop

C1_Witness ==
    /\ tick_status = "ok" /\ ~tick_go_flag
    /\ vars_out.delta # 0 /\ vars_out.speed # 0
    /\ PublishedSafeStop /\ latched_servo = << 50 >> /\ latched_motor = << 0 >>

\* C2: as long as one of the four readiness flags is false, nothing has been
\* published on servo_position or motor_speed, by the latest tick or by any
\* tick before it.
C2_NoPublicationBeforeReady ==
    ~AllFourReady =>
        /\ pub_servo = << >> /\ pub_motor = << >>
        /\ latched_servo = << >> /\ latched_motor = << >>

\* a tick was skipped with three of the four inputs in (the centerline and
\* odom flags were set by an earlier spinOnce: their next messages still wait)
C2_Witness ==
    /\ pc = "spin" /\ tick_status = "skipped"
    /\ m_pts_OK /\ m_speed_OK /\ ~m_pos_OK /\ ~m_psi_OK
    /\ q_centerline # << >> /\ q_odom # << >>
    /\ latched_servo = << >>

\* C3, as claimed: once signal_go_cb has run for a go_signal 0 with all four
\* inputs ready, the next pair published is (CENTER, 0), whatever other
\* messages are handled around it.
C3_StopWinsOverQueuedGo ==
    [][(stop_seen /\ PublishingTick) => (pub_servo' = << 50 >> /\ pub_motor' = << 0 >>)]_vars

\* C3, amended: once signal_go_cb has run for a go_signal 0, and as long as it
\* has not run for a 2309 after it, every pair published is (CENTER, 0).
C3_StopHoldsUntilGo ==
    [][(stop_handled /\ PublishingTick) => (pub_servo' = << 50 >> /\ pub_motor' = << 0 >>)]_vars

\* the stop was handled and not yet revoked, and the next tick published the
\* safe-stop pair although Solve asked for motion
C3_Witness ==
    /\ pc = "spin" /\ stop_handled /\ ~stop_seen /\ ~tick_go_flag
    /\ tick_status = "ok" /\ vars_out.speed > 0
    /\ PublishedSafeStop

\* C4: every value published on servo_position lies in [0, 1].
C4_ServoInRange ==
    /\ \A i \in 1..Len(pub_servo) : pub_servo[i] >= 0 /\ pub_servo[i] <= 100
    /\ \A i \in 1..Len(latched_servo) : latched_servo[i] >= 0 /\ latched_servo[i] <= 100

\* the upper clip was needed: go, and CENTER - delta above 1
C4_Witness ==
    /\ tick_go_flag /\ vars_out.delta < -50
    /\ pub_servo = << 100 >> /\ latched_servo = << 100 >>

\* C5: every value published on motor_speed is >= 0.
C5_MotorSpeedNonNegative ==
    /\ \A i \in 1..Len(pub_motor) : pub_motor[i] >= 0
    /\ \A i \in 1..Len(latched_motor) : latched_motor[i] >= 0

\* C6: a tick whose fit was singular or whose solve failed publishes (CENTER, 0).
C6_FailedSolvePublishesSafeStop ==
    tick_status \in {"NumericError", "SolveFailed"} => PublishedSafeStop

\* C7: a tick that starts with all four readiness flags true publishes exactly
\* one servo_position and one motor_speed message.
C7_ReadyTickPublishesOnePair ==
    tick_status \notin {"none", "skipped"} => (Len(pub_servo) = 1 /\ Len(pub_motor) = 1)

\* C8: when loop() has returned after a shutdown, the last command it
\* published is (CENTER, 0).
C8_SafeStopBeforeExit ==
    (pc = "done" /\ latched_servo # << >>) => (latched_servo = << 50 >> /\ latched_motor = << 0 >>)

\* C9, as claimed: a skipped tick publishes (CENTER, 0) exactly once.
C9_SkippedTickPublishesSafeStop ==
    tick_status = "skipped" => PublishedSafeStop

\* C9, amended: a tick that is skipped because an input has never arrived
\* publishes nothing and leaves the latched commands and the actuator values
\* as they were.
C9_SkippedTickPublishesNothing ==
    [][(pc = "tick" /\ pc' # "tick" /\ ~AllFourReady) =>
          /\ pub_servo' = << >> /\ pub_motor' = << >>
          /\ latched_servo' = latched_servo /\ latched_motor' = latched_motor
          /\ m_steer' = m_steer /\ m_rpm' = m_rpm]_vars

C9_Witness ==
    /\ pc = "spin" /\ tick_status = "skipped"
    /\ pub_servo = << >> /\ pub_motor = << >>
    /\ m_steer = 50 /\ m_rpm = 0
    /\ q_centerline = << >> /\ q_odom = << >> /\ q_pose = << >>

\* C10: go_flag starts false; handling a go_signal 0 makes it false, handling
\* a 2309 makes it true, and no other step (another go_signal code, another
\* callback, an arrival, a tick) changes it.
C10_GoFlagFrame ==
    /\ m_go_flag = FALSE
    /\ [][LET handled == pc = "spin" /\ q_go # << >> /\ q_go' = Tail(q_go)
          IN  /\ (handled /\ Head(q_go) = 0) => (m_go_flag' = FALSE)
              /\ (handled /\ Head(q_go) = 2309) => (m_go_flag' = TRUE)
              /\ (~handled \/ Head(q_go) \notin {0, 2309}) => (m_go_flag' = m_go_flag)]_vars

\* the flag is up, and a code that is neither 0 nor 2309 waits behind a 2309
\* that was handled
C10_Witness ==
    /\ pc = "spin" /\ m_go_flag /\ ~stop_handled
    /\ q_go # << >> /\ Head(q_go) = 1

\* C11: the four readiness flags start false; m_pts_OK becomes true exactly
\* when a centerline message is handled, m_speed_OK when an odom message is,
\* m_pos_OK and m_psi_OK when a pose message is; no step sets one back.
C11_ReadinessFlags ==
    /\ (~m_pts_OK /\ ~m_speed_OK /\ ~m_pos_OK /\ ~m_psi_OK)
    /\ [][LET spinning == pc = "spin"
              got_centerline == spinning /\ q_centerline # << >> /\ q_centerline' = Tail(q_centerline)
              got_odom == spinning /\ q_odom # << >> /\ q_odom' = Tail(q_odom)
              got_pose == spinning /\ q_pose # << >> /\ q_pose' = Tail(q_pose)
          IN  /\ m_pts_OK' = (m_pts_OK \/ got_centerline)
              /\ m_speed_OK' = (m_speed_OK \/ got_odom)
              /\ m_pos_OK' = (m_pos_OK \/ got_pose)
              /\ m_psi_OK' = (m_psi_OK \/ got_pose)]_vars

\* the pose has been handled, the odom message has not arrived yet, and a
\* tick was skipped in between
C11_Witness ==
    /\ pc = "tick" /\ tick_status = "skipped"
    /\ m_pts_OK /\ m_pos_OK /\ m_psi_OK /\ ~m_speed_OK
    /\ q_odom = << >>

\* C18: no callback runs inside a tick: the inputs a tick reads (the pose,
\* the speed, the centerline, go_flag, the readiness flags) change only in
\* the spinOnce between two ticks, and the stored pose and centerline are
\* those of one message.
C18_NoCallbackInsideTick ==
    [][/\ (node_state' # node_state) => (pc = "spin" /\ pc' = "spin")
       /\ m_pos_OK' => (m_pose' \in Poses)
       /\ m_pts_OK' => (m_pts' \in Centerlines)]_vars

\* a tick ran to its publication while a message of every channel waited
C18_Witness ==
    /\ pc = "spin" /\ tick_status = "ok" /\ pub_servo # << >>
    /\ q_centerline # << >> /\ q_odom # << >> /\ q_pose # << >> /\ q_go # << >>
    /\ m_pts \in Centerlines

\* the constraints of the configuration table
ValidConfig(c) ==
    /\ c.steps_ahead >= 2
    /\ c.dt > 0
    /\ c.ref_v > 0
    /\ c.ref_v_alpha >= 0 /\ c.ref_v_alpha <= 100
    /\ c.latency >= 0
    /\ c.cte_coeff >= 0 /\ c.consec_speed_coeff >= 0
    /\ c.poly_degree >= 1 /\ c.poly_degree <= c.num_steps_poly - 1
    /\ c.num_steps_poly >= c.poly_degree + 2

\* C12: the control loop is entered only with a configuration that meets
\* every constraint of the table; any other command line ends main() with 1.
C12_LoopOnlyWithValidConfig == pc = "loop" => ValidConfig(params)

\* C19: whenever the centerline readiness flag is true, the stored centerline
\* has at least num_steps_poly * STEP_POLY + NUM_STEPS_BACK points, whatever
\* centerline message the callback received.
C19_CenterlineLongEnough ==
    m_pts_OK => \A pa \in PolyArgs : Len(m_pts) >= pa[2] * STEP_POLY + NUM_STEPS_BACK

\* a tick has run its transform-and-stabilize step
Stabilized == pc = "spin" /\ xvals_vec # << >>

\* C13: after the transform-and-stabilize step, every car-frame x handed to
\* polyfit at an index i > poly_degree is at least X_DELTA_MIN beyond the one
\* before it, synthetic tail points included (with a poly_degree of at least 1,
\* so that every element read is one that was written).
C13_XSpacingAfterStabilizer ==
    (Stabilized /\ params.poly_degree >= 1) =>
        \A i \in 1..(Len(xvals_vec) - 1) :
            i > params.poly_degree =>
                xvals_vec[i + 1] - xvals_vec[i] >= X_DELTA_MIN_VALUE

\* C14: in every tick fraction_steps_OK lies in (0, 1], being (i+1)/num_steps_poly
\* for the break index i and 1 without a break, and with 0 <= ref_v_alpha <= 1
\* and ref_v > 0 the reference speed handed to the solver is at most ref_v
\* whenever fraction_steps_OK < 1.
C14_RefSpeedAttenuated ==
    Stabilized =>
        /\ fraction_steps_OK[1] > 0 /\ fraction_steps_OK[2] > 0
        /\ fraction_steps_OK[1] <= fraction_steps_OK[2]
        /\ fraction_steps_OK =
              IF break_i = << >> THEN << 1, 1 >>
              ELSE << break_i[1] + 1, params.num_steps_poly >>
        /\ (/\ params.ref_v_alpha >= 0 /\ params.ref_v_alpha <= 100
            /\ params.ref_v > 0
            /\ fraction_steps_OK[1] < fraction_steps_OK[2])
              => new_ref_v[1] <= params.ref_v * new_ref_v[2]

\* a tick whose stabilizer broke early, with a valid polynomial degree: the
\* reference speed is lowered
C14_Witness ==
    /\ Stabilized
    /\ params.poly_degree >= 1
    /\ break_i # << >>
    /\ fraction_steps_OK[1] < fraction_steps_OK[2]
    /\ new_ref_v[1] < params.ref_v * new_ref_v[2]

\* C15: the k-th window sample of a tick is the centerline point at index
\* ((idx - NUM_STEPS_BACK) + k*STEP_POLY) mod N, the non-negative remainder,
\* for every nearest index idx, those below NUM_STEPS_BACK included.
C15_WindowWrapsModuloLength ==
    (Stabilized /\ params.poly_degree >= 1) =>
        \A k \in 0..(params.num_steps_poly - 1) :
            closest_pts[k + 1] = m_pts[((closest_idx + k * STEP_POLY) % Len(m_pts)) + 1]

\* the step of a tick that computes the projection
ProjectingTick == pc = "tick" /\ pc' = "spin" /\ xvals_vec' # << >>

\* C16: the steering value in the latency projection of a tick is the angle
\* delta the solver returned in the previous publishing tick, and zero before
\* any solve; it is not the mapped, clamped or go-gated servo command.  (Stated
\* for a latency member that holds the configured latency.)
C16_ProjectionUsesLastDelta ==
    [][(ProjectingTick /\ m_latency = params.latency) =>
          psi_lat' = PsiLat(m_pose.psi, m_latency, m_speed, vars_out.delta)]_vars

\* C17: the latency in the pose projection of every tick is the configured
\* latency: m_latency was assigned from params.latency before the first tick
\* reads it and nothing changes it afterwards.
C17_ProjectionUsesConfiguredLatency ==
    [][/\ ProjectingTick =>
            /\ m_latency = params.latency
            /\ psi_lat' = PsiLat(m_pose.psi, params.latency, m_speed, m_steer)
       /\ m_latency' = m_latency]_vars

\* C20: whether the stabilizer breaks at an index i (poly_degree < i <
\* num_steps_poly) or never, the transform-and-stabilize step leaves exactly
\* num_steps_poly (x, y) pairs, and at a break the elements i-1 and i-2 it
\* reads are inside the i accepted points.
C20_StabilizerLeavesFullVectors ==
    Stabilized =>
        /\ Len(xvals_vec) = params.num_steps_poly
        /\ Len(yvals_vec) = params.num_steps_poly
        /\ break_i # << >> =>
              /\ break_i[1] > params.poly_degree
              /\ break_i[1] < params.num_steps_poly
              /\ break_i[1] - 1 >= 0
              /\ break_i[1] - 2 >= 0

\* the squared Euclidean distance from the position to the point at index k (from 0)
SquaredDistance(k) ==
    (m_pts[k + 1].x - pos_lat.x) * (m_pts[k + 1].x - pos_lat.x)
        + (m_pts[k + 1].y - pos_lat.y) * (m_pts[k + 1].y - pos_lat.y)

\* C21: for every non-empty point list and every position, find_closest
\* returns an index whose squared Euclidean distance to the position is minimal
\* over all indices, and the lowest of the indices at that distance.
C21_FindClosestIsArgMin ==
    (pc = "returned" /\ Len(m_pts) > 0) =>
        /\ closest_idx[1] \in 0..(Len(m_pts) - 1)
        /\ \A k \in 0..(Len(m_pts) - 1) :
              /\ SquaredDistance(closest_idx[1]) <= SquaredDistance(k)
              /\ SquaredDistance(k) = SquaredDistance(closest_idx[1]) => closest_idx[1] <= k

====
